---------------------------- MODULE Spec2Model ----------------------------
(***************************************************************************)
(* Model of barista-bot-go's puzzle core: the SGF line parser, the         *)
(* problem loader and the board renderer (src/parser/parser.go), the       *)
(* daily-config store (package repo) and the daily command of the bot      *)
(* (src/main.go).                                                          *)
(*                                                                         *)
(* A Go string is a sequence of one-character strings, <<"A","B","[">>;    *)
(* Ord gives a character's byte value where the code compares or           *)
(* subtracts bytes.  A regular expression is modelled by the match Go's    *)
(* regexp package computes for it (leftmost start, greedy or lazy          *)
(* repetition as written).                                                 *)
(***************************************************************************)
EXTENDS Integers, Sequences, FiniteSets, TLC

VARIABLES
    line,       \* ParseSGFLine's argument
    parsed,     \* ParseSGFLine's result, NotCalled before the call
    name,       \* sanitizeFilename's argument
    sanitized,  \* the results of sanitizeFilename applied once, then again
    file,       \* the lines of the file LoadProblems reads
    fileOpens,  \* whether os.Open succeeds on it
    faultAt,    \* 0, or k: the scanner fails (read error, over-long line)
                \* where its k-th token would be read
    loadPc,     \* "call", "scan" (in the loop), "ret" (returned)
    lineNo,     \* lines the scanner has delivered
    Problems,   \* GoParser.Problems
    skipLog,    \* the lines logged as skipped
    loadErr,    \* what LoadProblems returned: "nil", "open" or "scan"
    puzzle,     \* per RenderProblem call: the *GoProblem argument
    outputDir,  \* per call: the outputDir argument
    rpc,        \* per call: "idle" (never made), "call", "save", "write", "ret"
    canvas,     \* per call: the stones and label drawn on its context dc
    handle,     \* per call: "none", "open", "closed": its output file handle
    written,    \* per call: the chunks its encoder has written to the handle
    ret,        \* per call: the (path, error) pair returned
    fs,         \* the file system: path -> content, for the files that exist
    table,      \* the rows of the daily_config table
    setLog,     \* the SetConfig calls made so far, each with what it returned
    got,        \* what the last GetConfig call returned
    clock,      \* the latest Unix time an invocation read from time.Now()
    dpc,        \* per handleDaily invocation: "idle" (not made), "pick",
                \* "render" (in RenderProblem), "done"
    picked,     \* per invocation: the time read, the count and the index chosen
    reply       \* per invocation: the messages it sent, in order

parseVars == <<line, parsed>>
sanVars == <<name, sanitized>>
loadVars == <<file, fileOpens, faultAt, loadPc, lineNo, Problems, skipLog, loadErr>>

renderVars == <<puzzle, outputDir, rpc, canvas, handle, written, ret, fs>>

repoVars == <<table, setLog, got>>
dailyVars == <<clock, dpc, picked, reply>>

vars == <<parseVars, sanVars, loadVars, renderVars, repoVars, dailyVars>>

\* what each component's operations leave alone
notParse == <<sanVars, loadVars, renderVars, repoVars, dailyVars>>
notSanitize == <<parseVars, loadVars, renderVars, repoVars, dailyVars>>
notLoad == <<parseVars, sanVars, renderVars, repoVars, dailyVars>>
notRender == <<parseVars, sanVars, loadVars, repoVars, dailyVars>>
notRepo == <<parseVars, sanVars, loadVars, renderVars, dailyVars>>
notDaily == <<parseVars, sanVars, repoVars>>

-----------------------------------------------------------------------------
(* Bounds *)

\* segments concatenated to form an input line
MaxSegs == 3

\* characters of a title given to sanitizeFilename
MaxTitleLen == 3

\* lines of a file given to LoadProblems
MaxLines == 3

\* stones of one colour in a puzzle given to RenderProblem
MaxStones == 2

\* Write calls the PNG encoder makes on the output file for one image
NChunks == 2

\* SetConfig calls made on the store
MaxSets == 3

\* the last UTC day, counted from the epoch, on which the clock is read
MaxDay == 1

-----------------------------------------------------------------------------
(* Characters and strings *)

\* byte value of a character, as Go's s[i] and rune comparisons see it
Ord(c) ==
    CASE c = " " -> 32  [] c = "!" -> 33  [] c = "(" -> 40  [] c = ")" -> 41
      [] c = "-" -> 45  [] c = "." -> 46  [] c = "/" -> 47
      [] c = "0" -> 48  [] c = "9" -> 57  [] c = ";" -> 59
      [] c = "A" -> 65  [] c = "B" -> 66  [] c = "C" -> 67  [] c = "T" -> 84
      [] c = "W" -> 87  [] c = "Z" -> 90  [] c = "[" -> 91  [] c = "]" -> 93
      [] c = "_" -> 95
      [] c = "a" -> 97  [] c = "b" -> 98  [] c = "c" -> 99  [] c = "d" -> 100
      [] c = "e" -> 101 [] c = "g" -> 103 [] c = "l" -> 108 [] c = "m" -> 109
      [] c = "n" -> 110 [] c = "o" -> 111 [] c = "p" -> 112 [] c = "r" -> 114
      [] c = "s" -> 115 [] c = "t" -> 116 [] c = "x" -> 120 [] c = "z" -> 122

RECURSIVE Flatten(_)
\* concatenation of a sequence of strings
Flatten(ss) == IF ss = <<>> THEN <<>> ELSE Head(ss) \o Flatten(Tail(ss))

-----------------------------------------------------------------------------
(* Regular expressions of the parser *)

\* the marker a run expression starts with: AB or AW
blackRunRe == <<"A", "B">>
whiteRunRe == <<"A", "W">>

\* the character class [a-s]
InCoordClass(c) == Ord(c) >= Ord("a") /\ Ord(c) <= Ord("s")

\* coordRe as it would be with any two characters allowed in the brackets
coordReAnyPair(s, i) ==
    /\ i >= 1
    /\ i + 3 <= Len(s)
    /\ s[i] = "["
    /\ s[i + 3] = "]"

\* coordRe, \[([a-s]{2})\], matches s at position i
coordRe(s, i) ==
    /\ i >= 1
    /\ i + 3 <= Len(s)
    /\ s[i] = "["
    /\ InCoordClass(s[i + 1])
    /\ InCoordClass(s[i + 2])
    /\ s[i + 3] = "]"

RECURSIVE GreedyGroupsEnd(_, _)
\* (?:\[[a-s]{2}\])+ from position i: the position after the last group of
\* the longest contiguous sequence of groups
GreedyGroupsEnd(s, i) ==
    IF coordRe(s, i) THEN GreedyGroupsEnd(s, i + 4) ELSE i

\* the run expression matches s starting at position i
RunMatchesAt(runRe, s, i) ==
    /\ i + 1 <= Len(s)
    /\ s[i] = runRe[1]
    /\ s[i + 1] = runRe[2]
    /\ coordRe(s, i + 2)

\* runRe.FindStringSubmatch(line): the leftmost match, m[1] its groups
RunFindStringSubmatch(runRe, s) ==
    LET starts == {i \in 1..Len(s) : RunMatchesAt(runRe, s, i)}
    IN  IF starts = {} THEN [found |-> FALSE, sub |-> <<>>]
        ELSE LET i == CHOOSE k \in starts : \A j \in starts : k <= j
             IN  [found |-> TRUE,
                  sub |-> SubSeq(s, i + 2, GreedyGroupsEnd(s, i + 2) - 1)]

RECURSIVE CoordFindAll(_, _)
\* coordRe.FindAllStringSubmatch(s, -1) from position i: the captured
\* coordinate of every successive non-overlapping match
CoordFindAll(s, i) ==
    IF i > Len(s) THEN <<>>
    ELSE IF coordRe(s, i)
         THEN <<SubSeq(s, i + 1, i + 2)>> \o CoordFindAll(s, i + 4)
         ELSE CoordFindAll(s, i + 1)

\* extractCoords as it would be with every bracket group after the marker
\* collected, whatever lies between them
extractCoordsAnywhere(runRe, s) ==
    LET starts == {i \in 1..Len(s) : RunMatchesAt(runRe, s, i)}
    IN  IF starts = {} THEN <<>>
        ELSE LET i == CHOOSE k \in starts : \A j \in starts : k <= j
             IN  CoordFindAll(s, i + 2)

\* extractCoords(runRe, line)
extractCoords(runRe, s) ==
    LET m == RunFindStringSubmatch(runRe, s)
    IN  IF m.found THEN CoordFindAll(m.sub, 1) ELSE <<>>

\* commentRe, C\[(.*?)\], matches s from position i with its closing
\* bracket at position j (. is any character but a newline)
CommentMatches(s, i, j) ==
    /\ i + 1 <= Len(s)
    /\ s[i] = "C"
    /\ s[i + 1] = "["
    /\ j >= i + 2
    /\ j <= Len(s)
    /\ s[j] = "]"
    /\ \A k \in (i + 2)..(j - 1) : s[k] # "\n"

\* extractComment(commentRe, line): the leftmost match, its span lazily
\* ended at the first closing bracket
extractComment(s) ==
    LET starts == {i \in 1..Len(s) : \E j \in 1..Len(s) : CommentMatches(s, i, j)}
    IN  IF starts = {} THEN <<>>
        ELSE LET i == CHOOSE k \in starts : \A j \in starts : k <= j
                 ends == {j \in 1..Len(s) : CommentMatches(s, i, j)}
                 e == CHOOSE k \in ends : \A j \in ends : k <= j
             IN  SubSeq(s, i + 2, e - 1)

-----------------------------------------------------------------------------
(* ParseSGFLine *)

NotCalled == [called |-> FALSE]

\* ParseResult as it would be with || for && in the test: an error as soon
\* as one piece is missing
ParseResultAnyMissing(l) ==
    LET black == extractCoords(blackRunRe, l)
        white == extractCoords(whiteRunRe, l)
        comment == extractComment(l)
    IN  IF Len(black) = 0 \/ Len(white) = 0 \/ comment = <<>>
        THEN [called |-> TRUE, err |-> TRUE]
        ELSE [called |-> TRUE, err |-> FALSE,
              Name |-> comment, Black |-> black, White |-> white]

\* the (*GoProblem, error) pair ParseSGFLine returns
ParseResult(l) ==
    LET black == extractCoords(blackRunRe, l)
        white == extractCoords(whiteRunRe, l)
        comment == extractComment(l)
    IN  IF Len(black) = 0 /\ Len(white) = 0 /\ comment = <<>>
        THEN [called |-> TRUE, err |-> TRUE]
        ELSE [called |-> TRUE, err |-> FALSE,
              Name |-> comment, Black |-> black, White |-> white]

-----------------------------------------------------------------------------
(* Input lines *)

cc == <<"c", "c">>
dd == <<"d", "d">>
sa == <<"s", "a">>

\* a coordinate whose column and row are 25: outside the board
zz == <<"z", "z">>

\* "[xy]" for a coordinate xy
Group(c) == <<"[">> \o c \o <<"]">>

\* a marker followed by the bracket groups of the coordinates cs
RunSpan(runRe, cs) == runRe \o Flatten([k \in 1..Len(cs) |-> Group(cs[k])])

\* "C[t]"
CaptionSpan(t) == <<"C", "[">> \o t \o <<"]">>

BlackSeqs == {<<cc>>, <<dd, cc>>, <<cc, cc>>}
WhiteSeqs == {<<dd>>, <<sa, dd>>}
CaptionTexts ==
    { <<>>,
      <<"x", " ">>,
      <<"A","B","[","a","a">>,
      <<"A","W","[","a","a">> }
StrayTexts == {<<"A","B">>, Group(dd), <<"[","z","z","]">>, <<"x">>, <<"]">>}

\* the pieces input lines are made of: stone runs, captions, stray text
Segments ==
    {RunSpan(blackRunRe, cs) : cs \in BlackSeqs}
        \cup {RunSpan(whiteRunRe, cs) : cs \in WhiteSeqs}
        \cup {CaptionSpan(t) : t \in CaptionTexts}
        \cup StrayTexts

Lines == {Flatten(ss) : ss \in UNION {[1..n -> Segments] : n \in 0..MaxSegs}}

InitParse ==
    /\ line \in Lines
    /\ parsed = NotCalled

ParseSGFLine ==
    /\ ~parsed.called
    /\ parsed' = ParseResult(line)
    /\ UNCHANGED <<line, notParse>>

NextParse == ParseSGFLine

IdleParse == line = <<>> /\ parsed = NotCalled

-----------------------------------------------------------------------------
(* sanitizeFilename *)

\* SanitizeRune with the space case missing: a space is dropped
SanitizeRuneDropsSpace(r) ==
    IF \/ (Ord(r) >= Ord("A") /\ Ord(r) <= Ord("Z"))
       \/ (Ord(r) >= Ord("a") /\ Ord(r) <= Ord("z"))
       \/ (Ord(r) >= Ord("0") /\ Ord(r) <= Ord("9"))
       \/ r = "_"
       \/ r = "-"
    THEN <<r>>
    ELSE <<>>

\* what one rune of the name adds to out
SanitizeRune(r) ==
    IF r = " " THEN <<"_">>
    ELSE IF \/ (Ord(r) >= Ord("A") /\ Ord(r) <= Ord("Z"))
            \/ (Ord(r) >= Ord("a") /\ Ord(r) <= Ord("z"))
            \/ (Ord(r) >= Ord("0") /\ Ord(r) <= Ord("9"))
            \/ r = "_"
            \/ r = "-"
         THEN <<r>>
         ELSE <<>>

problem == <<"p", "r", "o", "b", "l", "e", "m">>

\* sanitizeFilename(name)
sanitizeFilename(n) ==
    LET out == Flatten([k \in 1..Len(n) |-> SanitizeRune(n[k])])
    IN  IF out = <<>> THEN problem ELSE out

TitleChars == {"Z", "a", "z", "9", "_", "-", " ", "/", "["}

Names ==
    UNION {[1..n -> TitleChars] : n \in 0..MaxTitleLen} \cup {problem}

InitSanitize ==
    /\ name \in Names
    /\ sanitized = <<>>

Sanitize ==
    /\ Len(sanitized) = 0
    /\ sanitized' = <<sanitizeFilename(name)>>
    /\ UNCHANGED <<name, notSanitize>>

SanitizeAgain ==
    /\ Len(sanitized) = 1
    /\ sanitized' = Append(sanitized, sanitizeFilename(sanitized[1]))
    /\ UNCHANGED <<name, notSanitize>>

NextSanitize == Sanitize \/ SanitizeAgain

IdleSanitize == name = <<>> /\ sanitized = <<>>

-----------------------------------------------------------------------------
(* LoadProblems *)

\* the *GoProblem a successful ParseSGFLine returns
ProblemOf(r) == [Name |-> r.Name, Black |-> r.Black, White |-> r.White]

FileLines ==
    { RunSpan(blackRunRe, <<dd, cc>>) \o RunSpan(whiteRunRe, <<sa, dd>>)
          \o CaptionSpan(<<"x", " ">>),
      RunSpan(blackRunRe, <<cc>>),
      CaptionSpan(<<>>),
      <<"x">>,
      <<>> }

Files == UNION {[1..n -> FileLines] : n \in 0..MaxLines}

\* a parser is constructed empty; a second load finds the first one's puzzles
PriorProblems ==
    {<<>>, <<[Name |-> <<"a">>, Black |-> <<>>, White |-> <<dd>>]>>}

InitLoad ==
    /\ file \in Files
    /\ fileOpens \in BOOLEAN
    /\ faultAt \in 0..(Len(file) + 1)
    /\ Problems \in PriorProblems
    /\ loadPc = "call"
    /\ lineNo = 0
    /\ skipLog = <<>>
    /\ loadErr = "nil"

\* os.Open fails: return err
LoadOpenFails ==
    /\ loadPc = "call"
    /\ ~fileOpens
    /\ loadPc' = "ret"
    /\ loadErr' = "open"
    /\ UNCHANGED <<file, fileOpens, faultAt, lineNo, Problems, skipLog, notLoad>>

\* os.Open succeeds; bufio.NewScanner(file)
LoadOpen ==
    /\ loadPc = "call"
    /\ fileOpens
    /\ loadPc' = "scan"
    /\ UNCHANGED <<file, fileOpens, faultAt, lineNo, Problems, skipLog, loadErr, notLoad>>

\* scanner.Scan() delivers the next line
ScanDelivers ==
    /\ loadPc = "scan"
    /\ lineNo < Len(file)
    /\ faultAt # lineNo + 1

\* one loop iteration on a line ParseSGFLine accepts: append
LoadAppendLine ==
    /\ ScanDelivers
    /\ ~ParseResult(file[lineNo + 1]).err
    /\ Problems' = Append(Problems, ProblemOf(ParseResult(file[lineNo + 1])))
    /\ lineNo' = lineNo + 1
    /\ UNCHANGED <<file, fileOpens, faultAt, loadPc, skipLog, loadErr, notLoad>>

\* the iteration on a rejected line as it would be with the loop left there
LoadSkipLineBreaks ==
    /\ ScanDelivers
    /\ ParseResult(file[lineNo + 1]).err
    /\ skipLog' = Append(skipLog, file[lineNo + 1])
    /\ lineNo' = lineNo + 1
    /\ loadPc' = "ret"
    /\ UNCHANGED <<file, fileOpens, faultAt, Problems, loadErr, notLoad>>

\* one loop iteration on a line ParseSGFLine rejects: log and continue
LoadSkipLine ==
    /\ ScanDelivers
    /\ ParseResult(file[lineNo + 1]).err
    /\ skipLog' = Append(skipLog, file[lineNo + 1])
    /\ lineNo' = lineNo + 1
    /\ UNCHANGED <<file, fileOpens, faultAt, loadPc, Problems, loadErr, notLoad>>

\* scanner.Scan() returns false at the end of the file: return nil
LoadEndOfFile ==
    /\ loadPc = "scan"
    /\ lineNo = Len(file)
    /\ faultAt # lineNo + 1
    /\ loadPc' = "ret"
    /\ loadErr' = "nil"
    /\ UNCHANGED <<file, fileOpens, faultAt, lineNo, Problems, skipLog, notLoad>>

\* scanner.Scan() returns false on a fault: return scanner.Err()
LoadScanFault ==
    /\ loadPc = "scan"
    /\ faultAt = lineNo + 1
    /\ loadPc' = "ret"
    /\ loadErr' = "scan"
    /\ UNCHANGED <<file, fileOpens, faultAt, lineNo, Problems, skipLog, notLoad>>

NextLoad ==
    \/ LoadOpenFails
    \/ LoadOpen
    \/ LoadAppendLine
    \/ LoadSkipLine
    \/ LoadEndOfFile
    \/ LoadScanFault

IdleLoad ==
    /\ file = <<>>
    /\ fileOpens = TRUE
    /\ faultAt = 0
    /\ Problems = <<>>
    /\ loadPc = "call"
    /\ lineNo = 0
    /\ skipLog = <<>>
    /\ loadErr = "nil"

-----------------------------------------------------------------------------
(* RenderProblem *)

\* the grid has 19 lines: indices 0..18
BoardSize == 19

\* sgfToIndex with the range test off by one (> for >=)
sgfToIndexOffByOne(s) ==
    IF Len(s) # 2 THEN [err |-> "invalid coord", coord |-> s]
    ELSE LET x == (Ord(s[1]) - Ord("a")) % 256
             y == (Ord(s[2]) - Ord("a")) % 256
         IN  IF x < 0 \/ x > BoardSize \/ y < 0 \/ y > BoardSize
             THEN [err |-> "coord out of range", coord |-> s]
             ELSE [err |-> "nil", x |-> x, y |-> y]

\* sgfToIndex(s): x and y are differences of bytes, computed modulo 256
sgfToIndex(s) ==
    IF Len(s) # 2 THEN [err |-> "invalid coord", coord |-> s]
    ELSE LET x == (Ord(s[1]) - Ord("a")) % 256
             y == (Ord(s[2]) - Ord("a")) % 256
         IN  IF x < 0 \/ x >= BoardSize \/ y < 0 \/ y >= BoardSize
             THEN [err |-> "coord out of range", coord |-> s]
             ELSE [err |-> "nil", x |-> x, y |-> y]

\* the drawStone calls of the two loops, in order: black stones, then white
StoneCalls(p) ==
    [k \in 1..Len(p.Black) |-> [coord |-> p.Black[k], fill |-> "Black"]]
        \o [k \in 1..Len(p.White) |-> [coord |-> p.White[k], fill |-> "White"]]

\* index of the first drawStone call that returns an error, 0 if none does
FirstBadStone(p) ==
    LET calls == StoneCalls(p)
        bad == {k \in 1..Len(calls) : sgfToIndex(calls[k].coord).err # "nil"}
    IN  IF bad = {} THEN 0 ELSE CHOOSE k \in bad : \A j \in bad : k <= j

\* the stone drawStone draws on dc for a call that decodes
DrawnStone(c) ==
    [x |-> sgfToIndex(c.coord).x, y |-> sgfToIndex(c.coord).y, fill |-> c.fill]

\* filepath.Join(outputDir, filename): an empty element is ignored, the
\* elements are joined by a slash and the result is cleaned, which drops a
\* leading "./"
Join(dir, filename) ==
    LET d == IF Len(dir) >= 2 /\ dir[1] = "." /\ dir[2] = "/"
             THEN SubSeq(dir, 3, Len(dir))
             ELSE dir
    IN  IF d = <<>> THEN filename ELSE d \o <<"/">> \o filename

\* outPath of a call: outputDir joined with "<sanitized title>.png"
OutPath(p, dir) ==
    Join(dir, sanitizeFilename(p.Name) \o <<".", "p", "n", "g">>)

\* the encoded image of a canvas: what each Write call of the encoder holds
Chunk(cv, k) == [of |-> cv, k |-> k]
Image(cv) == [k \in 1..NChunks |-> Chunk(cv, k)]
Hole == [of |-> "hole", k |-> 0]
OldImage == Image("old")

\* the file after a write of chunk c at chunk offset k (1-based): beyond the
\* end of the file the gap reads as zeros
WriteAt(content, k, c) ==
    [i \in 1..(IF k > Len(content) THEN k ELSE Len(content)) |->
        IF i = k THEN c
        ELSE IF i <= Len(content) THEN content[i] ELSE Hole]

FsPut(path, content) ==
    [q \in DOMAIN fs \cup {path} |-> IF q = path THEN content ELSE fs[q]]

Calls == {"r1", "r2"}

NoReturn == [path |-> <<>>, err |-> "none"]
BlankCanvas == [stones |-> <<>>, label |-> <<>>]

RenderCoords == {<<"a", "s">>, <<"d", "t">>, <<"A", "d">>, <<"d">>}
StoneSeqs == UNION {[1..n -> RenderCoords] : n \in 0..MaxStones}
RenderTitles == {<<>>, <<"/">>, <<"T", " ", "x">>}
Dirs == {<<"o", "u", "t">>, <<>>}

\* every puzzle, for a single call
RenderPuzzles == [Name : RenderTitles, Black : StoneSeqs, White : StoneSeqs]

\* puzzles for two calls running together
PairPuzzles ==
    [Name : RenderTitles,
     Black : {<<>>, <<<<"a", "s">>>>, <<<<"d", "t">>>>},
     White : {<<>>}]

NoPuzzle == [Name |-> <<>>, Black |-> <<>>, White |-> <<>>]

\* one call alone on any puzzle, or two calls running together
InitRenderCalls ==
    \/ \E p \in RenderPuzzles :
          /\ puzzle = [c \in Calls |-> IF c = "r1" THEN p ELSE NoPuzzle]
          /\ outputDir = [c \in Calls |-> IF c = "r1" THEN <<"o", "u", "t">> ELSE <<>>]
          /\ rpc = [c \in Calls |-> IF c = "r1" THEN "call" ELSE "idle"]
    \/ /\ puzzle \in [Calls -> PairPuzzles]
       /\ outputDir \in [Calls -> Dirs]
       /\ rpc = [c \in Calls |-> "call"]

\* the output path holds no file yet, or the image of an earlier render
InitRender ==
    /\ InitRenderCalls
    /\ canvas = [c \in Calls |-> BlankCanvas]
    /\ handle = [c \in Calls |-> "none"]
    /\ written = [c \in Calls |-> 0]
    /\ ret = [c \in Calls |-> NoReturn]
    /\ \/ fs = <<>>
       \/ fs = [q \in {OutPath(puzzle["r1"], outputDir["r1"])} |-> OldImage]

\* the two stone loops as they would be with a drawStone error ignored
RenderPlaceStonesIgnoringErrors(c) ==
    /\ rpc[c] = "call"
    /\ LET calls == StoneCalls(puzzle[c])
           good == SelectSeq(calls, LAMBDA s : sgfToIndex(s.coord).err = "nil")
       IN  canvas' = [canvas EXCEPT ![c] =
                        [stones |-> [k \in 1..Len(good) |-> DrawnStone(good[k])],
                         label |-> puzzle[c].Name]]
    /\ rpc' = [rpc EXCEPT ![c] = "save"]
    /\ UNCHANGED <<puzzle, outputDir, handle, written, ret, fs, notRender>>

\* the canvas, grid and star points, the two stone loops, the label: up to
\* the first drawStone error, which is returned with an empty path
RenderPlaceStones(c) ==
    /\ rpc[c] = "call"
    /\ LET calls == StoneCalls(puzzle[c])
           bad == FirstBadStone(puzzle[c])
           n == IF bad = 0 THEN Len(calls) ELSE bad - 1
       IN  /\ canvas' = [canvas EXCEPT ![c] =
                            [stones |-> [k \in 1..n |-> DrawnStone(calls[k])],
                             label |-> IF bad = 0 THEN puzzle[c].Name ELSE <<>>]]
           /\ IF bad = 0
              THEN /\ rpc' = [rpc EXCEPT ![c] = "save"]
                   /\ ret' = ret
              ELSE /\ rpc' = [rpc EXCEPT ![c] = "ret"]
                   /\ ret' = [ret EXCEPT ![c] =
                                [path |-> <<>>,
                                 err |-> sgfToIndex(calls[bad].coord)]]
    /\ UNCHANGED <<puzzle, outputDir, handle, written, fs, notRender>>

\* dc.SavePNG(outPath): os.Create creates the file or truncates it
RenderCreate(c) ==
    /\ rpc[c] = "save"
    /\ fs' = FsPut(OutPath(puzzle[c], outputDir[c]), <<>>)
    /\ handle' = [handle EXCEPT ![c] = "open"]
    /\ rpc' = [rpc EXCEPT ![c] = "write"]
    /\ UNCHANGED <<puzzle, outputDir, canvas, written, ret, notRender>>

\* dc.SavePNG(outPath): os.Create fails; the error is returned
RenderCreateFails(c) ==
    /\ rpc[c] = "save"
    /\ rpc' = [rpc EXCEPT ![c] = "ret"]
    /\ ret' = [ret EXCEPT ![c] = [path |-> <<>>, err |-> [err |-> "create"]]]
    /\ UNCHANGED <<puzzle, outputDir, canvas, handle, written, fs, notRender>>

\* dc.SavePNG(outPath): the encoder writes its next chunk at the handle's
\* offset, into whatever file the path names now
RenderWrite(c) ==
    /\ rpc[c] = "write"
    /\ written[c] < NChunks
    /\ LET path == OutPath(puzzle[c], outputDir[c])
       IN  fs' = FsPut(path, WriteAt(fs[path], written[c] + 1,
                                     Chunk(canvas[c], written[c] + 1)))
    /\ written' = [written EXCEPT ![c] = written[c] + 1]
    /\ UNCHANGED <<puzzle, outputDir, rpc, canvas, handle, ret, notRender>>

\* dc.SavePNG(outPath): a Write fails; the file is closed as it is and the
\* error is returned
RenderWriteFails(c) ==
    /\ rpc[c] = "write"
    /\ written[c] < NChunks
    /\ handle' = [handle EXCEPT ![c] = "closed"]
    /\ rpc' = [rpc EXCEPT ![c] = "ret"]
    /\ ret' = [ret EXCEPT ![c] = [path |-> <<>>, err |-> [err |-> "write"]]]
    /\ UNCHANGED <<puzzle, outputDir, canvas, written, fs, notRender>>

\* dc.SavePNG(outPath) returns nil: return outPath, nil
RenderReturn(c) ==
    /\ rpc[c] = "write"
    /\ written[c] = NChunks
    /\ handle' = [handle EXCEPT ![c] = "closed"]
    /\ rpc' = [rpc EXCEPT ![c] = "ret"]
    /\ ret' = [ret EXCEPT ![c] =
                 [path |-> OutPath(puzzle[c], outputDir[c]), err |-> [err |-> "nil"]]]
    /\ UNCHANGED <<puzzle, outputDir, canvas, written, fs, notRender>>

NextRender ==
    \E c \in Calls :
        \/ RenderPlaceStones(c)
        \/ RenderCreate(c)
        \/ RenderCreateFails(c)
        \/ RenderWrite(c)
        \/ RenderWriteFails(c)
        \/ RenderReturn(c)

IdleRender ==
    /\ puzzle = [c \in Calls |-> NoPuzzle]
    /\ outputDir = [c \in Calls |-> <<>>]
    /\ rpc = [c \in Calls |-> "idle"]
    /\ canvas = [c \in Calls |-> BlankCanvas]
    /\ handle = [c \in Calls |-> "none"]
    /\ written = [c \in Calls |-> 0]
    /\ ret = [c \in Calls |-> NoReturn]
    /\ fs = <<>>

-----------------------------------------------------------------------------
(* DailyRepository: the daily_config table *)

Guilds == {"g1", "g2"}
\* the (channelID, timeHHMM) pairs given to SetConfig
Settings == {<<"c1", "08:00">>, <<"c2", "08:00">>, <<"c2", "21:30">>}

\* a row of daily_config, and the DailyConfig scanned from it
Row(g, ch, t) == [guild_id |-> g, channel_id |-> ch, time_hhmm |-> t]

\* the rows a query WHERE guild_id = g selects
RowsOf(rows, g) == {r \in rows : r.guild_id = g}

\* the INSERT as it would be with ON CONFLICT(guild_id) DO NOTHING
UpsertKeepsOld(rows, g, ch, t) ==
    IF RowsOf(rows, g) # {} THEN rows ELSE rows \cup {Row(g, ch, t)}

\* INSERT ... ON CONFLICT(guild_id) DO UPDATE SET channel_id, time_hhmm:
\* a row with this guild_id is updated in place, otherwise one is inserted
Upsert(rows, g, ch, t) ==
    IF RowsOf(rows, g) # {}
    THEN {IF r.guild_id = g THEN Row(r.guild_id, ch, t) ELSE r : r \in rows}
    ELSE rows \cup {Row(g, ch, t)}

NoGet == [called |-> FALSE]

\* the table as InitDBConnection creates it in a new database
InitRepo ==
    /\ table = {}
    /\ setLog = <<>>
    /\ got = NoGet

\* SetConfig(guildID, channelID, timeHHMM): the statement executes
SetConfig(g, ch, t) ==
    /\ Len(setLog) < MaxSets
    /\ table' = Upsert(table, g, ch, t)
    /\ setLog' = Append(setLog, [guild |-> g, channel |-> ch, time |-> t,
                                 err |-> "nil"])
    /\ UNCHANGED <<got, notRepo>>

\* SetConfig: db.Exec returns an error, the statement changed nothing
SetConfigFails(g, ch, t) ==
    /\ Len(setLog) < MaxSets
    /\ setLog' = Append(setLog, [guild |-> g, channel |-> ch, time |-> t,
                                 err |-> "failed to set config"])
    /\ UNCHANGED <<table, got, notRepo>>

\* GetConfig(guildID): QueryRow gives the first selected row to Scan, or
\* sql.ErrNoRows when none is selected; seen is the number of SetConfig
\* calls made before this call
GetConfig(g) ==
    /\ \/ /\ RowsOf(table, g) = {}
          /\ got' = [called |-> TRUE, guild |-> g, seen |-> Len(setLog),
                     err |-> "sql.ErrNoRows"]
       \/ \E r \in RowsOf(table, g) :
             got' = [called |-> TRUE, guild |-> g, seen |-> Len(setLog),
                     err |-> "nil", cfg |-> r]
    /\ UNCHANGED <<table, setLog, notRepo>>

\* GetConfig: Scan returns another error than sql.ErrNoRows
GetConfigFails(g) ==
    /\ got' = [called |-> TRUE, guild |-> g, seen |-> Len(setLog),
               err |-> "failed to get config"]
    /\ UNCHANGED <<table, setLog, notRepo>>

NextRepo ==
    \/ \E g \in Guilds, a \in Settings : SetConfig(g, a[1], a[2])
    \/ \E g \in Guilds, a \in Settings : SetConfigFails(g, a[1], a[2])
    \/ \E g \in Guilds : GetConfig(g)
    \/ \E g \in Guilds : GetConfigFails(g)

IdleRepo ==
    /\ table = {}
    /\ setLog = <<>>
    /\ got = NoGet

-----------------------------------------------------------------------------
(* main's load of the puzzles, then handleDaily *)

SecondsPerDay == 86400

\* a / b and a % b on Go integers, for b > 0: the quotient is truncated
\* toward zero and the remainder has the sign of a
GoQuo(a, b) == IF a >= 0 THEN a \div b ELSE -((-a) \div b)
GoRem(a, b) == a - b * GoQuo(a, b)

\* the times at which time.Now() is read: the first second of each day and
\* the last second of the last one
Instants ==
    {d * SecondsPerDay : d \in 0..MaxDay} \cup {(MaxDay + 1) * SecondsPerDay - 1}

\* DailyIndex as it would be with the seconds not divided into days
DailyIndexOfSecond(t, count) == GoRem(t, count)

\* idx of handleDaily: days := Unix() / 86400, idx := int(days % int64(count))
DailyIndex(t, count) == GoRem(GoQuo(t, SecondsPerDay), count)

\* the lines of ./files/cho-easy.sgf: AB[cc][zz]C[x ], AW[dd], AB[zz]
DailyFileLines ==
    { RunSpan(blackRunRe, <<cc>>) \o Group(zz) \o CaptionSpan(<<"x", " ">>),
      RunSpan(whiteRunRe, <<dd>>),
      blackRunRe \o Group(zz) }

\* files of these lines, none of them repeated
DailyFiles ==
    {f \in UNION {[1..n -> DailyFileLines] : n \in 0..MaxLines} :
        \A i, j \in 1..Len(f) : i # j => f[i] # f[j]}

\* "./out", the directory handleDaily renders into
DailyOutputDir == <<".", "/", "o", "u", "t">>

NoPick == [read |-> FALSE]

\* main before pg.LoadProblems, on a new GoParser; no /daily invoked yet
InitDaily ==
    /\ file \in DailyFiles
    /\ fileOpens \in BOOLEAN
    /\ faultAt \in 0..(Len(file) + 1)
    /\ Problems = <<>>
    /\ loadPc = "call"
    /\ lineNo = 0
    /\ skipLog = <<>>
    /\ loadErr = "nil"
    /\ puzzle = [c \in Calls |-> NoPuzzle]
    /\ outputDir = [c \in Calls |-> <<>>]
    /\ rpc = [c \in Calls |-> "idle"]
    /\ canvas = [c \in Calls |-> BlankCanvas]
    /\ handle = [c \in Calls |-> "none"]
    /\ written = [c \in Calls |-> 0]
    /\ ret = [c \in Calls |-> NoReturn]
    /\ fs = <<>>
    /\ clock = 0
    /\ dpc = [c \in Calls |-> "idle"]
    /\ picked = [c \in Calls |-> NoPick]
    /\ reply = [c \in Calls |-> <<>>]

\* main registers the handlers only after LoadProblems returned nil: on an
\* error it exits
Serving == loadPc = "ret" /\ loadErr = "nil"

\* respond / respondError, and return
DailyRespondAndReturn(c, msg) ==
    /\ reply' = [reply EXCEPT ![c] = Append(reply[c], msg)]
    /\ dpc' = [dpc EXCEPT ![c] = "done"]

\* handleDaily invoked in a thread, or the channel cannot be fetched
DailyNotInChannel(c) ==
    /\ Serving
    /\ dpc[c] = "idle"
    /\ DailyRespondAndReturn(c, "Please use this command in a main channel.")
    /\ UNCHANGED <<clock, picked, loadVars, renderVars, notDaily>>

\* s.ThreadStart fails
DailyThreadFails(c) ==
    /\ Serving
    /\ dpc[c] = "idle"
    /\ DailyRespondAndReturn(c, "could not create thread")
    /\ UNCHANGED <<clock, picked, loadVars, renderVars, notDaily>>

\* the thread is created and the interaction acknowledged
DailyThreadCreated(c) ==
    /\ Serving
    /\ dpc[c] = "idle"
    /\ reply' = [reply EXCEPT ![c] = Append(reply[c], "Daily practice thread created!")]
    /\ dpc' = [dpc EXCEPT ![c] = "pick"]
    /\ UNCHANGED <<clock, picked, loadVars, renderVars, notDaily>>

\* time.Now() is read, count == 0: respondError and return
DailyNoProblems(c) ==
    /\ dpc[c] = "pick"
    /\ Len(Problems) = 0
    /\ \E t \in Instants :
          /\ t >= clock
          /\ clock' = t
          /\ picked' = [picked EXCEPT ![c] =
                          [read |-> TRUE, at |-> t, count |-> 0, indexed |-> FALSE]]
    /\ DailyRespondAndReturn(c, "no problems available")
    /\ UNCHANGED <<loadVars, renderVars, notDaily>>

\* time.Now() is read, count > 0: idx is computed, problems[idx] taken (an
\* index outside the slice panics) and RenderProblem called on it
DailyPick(c) ==
    /\ dpc[c] = "pick"
    /\ Len(Problems) > 0
    /\ \E t \in Instants :
          /\ t >= clock
          /\ clock' = t
          /\ LET count == Len(Problems)
                 idx == DailyIndex(t, count)
             IN  /\ picked' = [picked EXCEPT ![c] =
                                 [read |-> TRUE, at |-> t, count |-> count,
                                  indexed |-> TRUE, idx |-> idx]]
                 /\ IF idx >= 0 /\ idx < count
                    THEN /\ puzzle' = [puzzle EXCEPT ![c] = Problems[idx + 1]]
                         /\ outputDir' = [outputDir EXCEPT ![c] = DailyOutputDir]
                         /\ rpc' = [rpc EXCEPT ![c] = "call"]
                         /\ dpc' = [dpc EXCEPT ![c] = "render"]
                    ELSE /\ dpc' = [dpc EXCEPT ![c] = "panic"]
                         /\ UNCHANGED <<puzzle, outputDir, rpc>>
    /\ UNCHANGED <<reply, canvas, handle, written, ret, fs, loadVars, notDaily>>

\* RenderProblem returned an error: respondError and return
DailyRenderFailed(c) ==
    /\ dpc[c] = "render"
    /\ rpc[c] = "ret"
    /\ ret[c].err.err # "nil"
    /\ DailyRespondAndReturn(c, "failed to render problem")
    /\ UNCHANGED <<clock, picked, loadVars, renderVars, notDaily>>

\* RenderProblem returned a path: the image is opened and sent to the
\* thread, or one of the two fails
DailySendImage(c) ==
    /\ dpc[c] = "render"
    /\ rpc[c] = "ret"
    /\ ret[c].err.err = "nil"
    /\ \E msg \in {"failed to open image", "failed to send image", "image"} :
          DailyRespondAndReturn(c, msg)
    /\ UNCHANGED <<clock, picked, loadVars, renderVars, notDaily>>

NextDaily ==
    \/ LoadOpenFails
    \/ LoadOpen
    \/ LoadAppendLine
    \/ LoadSkipLine
    \/ LoadEndOfFile
    \/ LoadScanFault
    \/ \E c \in Calls :
          \/ DailyNotInChannel(c)
          \/ DailyThreadFails(c)
          \/ DailyThreadCreated(c)
          \/ DailyNoProblems(c)
          \/ DailyPick(c)
          \/ DailyRenderFailed(c)
          \/ DailySendImage(c)
          \/ RenderPlaceStones(c)
          \/ RenderCreate(c)
          \/ RenderCreateFails(c)
          \/ RenderWrite(c)
          \/ RenderWriteFails(c)
          \/ RenderReturn(c)

IdleDaily ==
    /\ clock = 0
    /\ dpc = [c \in Calls |-> "idle"]
    /\ picked = [c \in Calls |-> NoPick]
    /\ reply = [c \in Calls |-> <<>>]

-----------------------------------------------------------------------------
(* Specifications *)

InitSpecParse ==
    InitParse /\ IdleSanitize /\ IdleLoad /\ IdleRender /\ IdleRepo /\ IdleDaily
SpecParse == InitSpecParse /\ [][NextParse]_vars

InitSpecSanitize ==
    InitSanitize /\ IdleParse /\ IdleLoad /\ IdleRender /\ IdleRepo /\ IdleDaily
SpecSanitize == InitSpecSanitize /\ [][NextSanitize]_vars

InitSpecLoad ==
    InitLoad /\ IdleParse /\ IdleSanitize /\ IdleRender /\ IdleRepo /\ IdleDaily
SpecLoad == InitSpecLoad /\ [][NextLoad]_vars

InitSpecRender ==
    InitRender /\ IdleParse /\ IdleSanitize /\ IdleLoad /\ IdleRepo /\ IdleDaily
SpecRender == InitSpecRender /\ [][NextRender]_vars

InitSpecRepo ==
    InitRepo /\ IdleParse /\ IdleSanitize /\ IdleLoad /\ IdleRender /\ IdleDaily
SpecRepo == InitSpecRepo /\ [][NextRepo]_vars

InitSpecDaily == InitDaily /\ IdleParse /\ IdleSanitize /\ IdleRepo
SpecDaily == InitSpecDaily /\ [][NextDaily]_vars

-----------------------------------------------------------------------------
(* Properties of ParseSGFLine, stated on the text of the line *)

\* the line holds, at position i, the marker m and one bracketed a-s pair
RunStartsAt(l, m, i) ==
    /\ i + 5 <= Len(l)
    /\ SubSeq(l, i, i + 1) = m
    /\ l[i + 2] = "[" /\ l[i + 5] = "]"
    /\ \A k \in {i + 3, i + 4} : Ord(l[k]) \in Ord("a")..Ord("s")

ContainsRun(l, m) == \E i \in 1..Len(l) : RunStartsAt(l, m, i)

\* where the leftmost run of marker m starts
FirstRun(l, m) ==
    CHOOSE i \in 1..Len(l) :
        RunStartsAt(l, m, i) /\ \A j \in 1..(i - 1) : ~RunStartsAt(l, m, j)

\* the line holds a caption span at position i: "C[", later a "]"
CaptionStartsAt(l, i) ==
    /\ i + 1 <= Len(l)
    /\ l[i] = "C" /\ l[i + 1] = "["
    /\ \E j \in (i + 2)..Len(l) : l[j] = "]"

ContainsCaption(l) == \E i \in 1..Len(l) : CaptionStartsAt(l, i)

\* the leftmost caption span of the line has a non-empty content
FirstCaptionHasText(l) ==
    \E i \in 1..Len(l) :
        /\ CaptionStartsAt(l, i)
        /\ \A j \in 1..(i - 1) : ~CaptionStartsAt(l, j)
        /\ l[i + 2] # "]"

\* the three spans in one of the six orders; order is a permutation of
\* <<"B", "W", "C">>
Orders ==
    {o \in [1..3 -> {"B", "W", "C"}] : \A i, j \in 1..3 : i # j => o[i] # o[j]}

SpanOf(tag, b, w, t) ==
    CASE tag = "B" -> RunSpan(blackRunRe, b)
      [] tag = "W" -> RunSpan(whiteRunRe, w)
      [] tag = "C" -> CaptionSpan(t)

ThreeSpanLine(o, b, w, t) ==
    SpanOf(o[1], b, w, t) \o SpanOf(o[2], b, w, t) \o SpanOf(o[3], b, w, t)

Pos(o, tag) == CHOOSE i \in 1..3 : o[i] = tag

\* the caption text ends in the marker m, "[" and two a-s letters, so that
\* the caption's closing bracket completes a bracket group after a marker
EndsInOpenGroup(t, m) ==
    /\ Len(t) >= 5
    /\ RunStartsAt(t \o <<"]">>, m, Len(t) - 4)

Puzzle(t, b, w) ==
    [called |-> TRUE, err |-> FALSE, Name |-> t, Black |-> b, White |-> w]

\* C1 as stated: for every line made of a black run, a white run and a
\* caption in any of the six orders, ParseSGFLine succeeds with Black and
\* White the coordinates of the runs in order and Name the caption content.
C1_AnyThreeSpanLine ==
    parsed.called =>
        \A o \in Orders, b \in BlackSeqs, w \in WhiteSeqs, t \in CaptionTexts :
            line = ThreeSpanLine(o, b, w, t) => parsed = Puzzle(t, b, w)

\* C1, the cases in which it holds: every such line except those whose
\* caption stands before a colour's run and ends in that colour's marker
\* followed by "[" and two a-s letters.
C1_ThreeSpanLine ==
    parsed.called =>
        \A o \in Orders, b \in BlackSeqs, w \in WhiteSeqs, t \in CaptionTexts :
            ( /\ line = ThreeSpanLine(o, b, w, t)
              /\ ~(Pos(o, "C") < Pos(o, "B") /\ EndsInOpenGroup(t, blackRunRe))
              /\ ~(Pos(o, "C") < Pos(o, "W") /\ EndsInOpenGroup(t, whiteRunRe)) )
                => parsed = Puzzle(t, b, w)

\* a caption placed between the runs, its text ending in a marker and an
\* open group; runs of two coordinates
C1_Witness ==
    /\ parsed.called
    /\ line = ThreeSpanLine(<<"W", "C", "B">>, <<dd, cc>>, <<sa, dd>>,
                            <<"A","W","[","a","a">>)
    /\ parsed = Puzzle(<<"A","W","[","a","a">>, <<dd, cc>>, <<sa, dd>>)

\* C2: ParseSGFLine returns an error and no puzzle exactly when the line
\* yields no black coordinates, no white coordinates and no caption text;
\* otherwise it returns a puzzle whose missing pieces are empty.
C2_ErrorIffNothingFound ==
    parsed.called =>
        /\ parsed.err <=>
              ( /\ ~ContainsRun(line, blackRunRe)
                /\ ~ContainsRun(line, whiteRunRe)
                /\ ~FirstCaptionHasText(line) )
        /\ parsed.err => DOMAIN parsed = {"called", "err"}
        /\ ~parsed.err =>
              /\ ~ContainsRun(line, blackRunRe) => parsed.Black = <<>>
              /\ ~ContainsRun(line, whiteRunRe) => parsed.White = <<>>
              /\ ~FirstCaptionHasText(line) => parsed.Name = <<>>

\* a marker with an out-of-range group and stray text: nothing is found
C2_Witness ==
    /\ parsed.called
    /\ line = <<"A","B","[","z","z","]","x">>
    /\ parsed.err

\* C3 as stated: every line with a caption span and no stone run parses
\* successfully with both stone sequences empty, the empty caption included.
C3_CaptionOnlyParses ==
    ( /\ parsed.called
      /\ ContainsCaption(line)
      /\ ~ContainsRun(line, blackRunRe)
      /\ ~ContainsRun(line, whiteRunRe) )
        => /\ ~parsed.err
           /\ parsed.Black = <<>>
           /\ parsed.White = <<>>

\* C4: a colour's sequence is exactly the contiguous bracket groups that
\* follow the leftmost marker having a group right after it: the token after
\* the last coordinate taken is not a group, and nothing further is taken.
RunIsContiguous(l, m, r) ==
    IF ~ContainsRun(l, m) THEN r = <<>>
    ELSE LET i == FirstRun(l, m)
         IN  /\ Len(r) >= 1
             /\ \A k \in 1..Len(r) :
                    SubSeq(l, i + 4 * k - 2, i + 4 * k + 1) = Group(r[k])
             /\ ~RunStartsAt(m \o SubSeq(l, i + 4 * Len(r) + 2, Len(l)), m, 1)

C4_RunStopsAtFirstNonGroup ==
    (parsed.called /\ ~parsed.err) =>
        /\ RunIsContiguous(line, blackRunRe, parsed.Black)
        /\ RunIsContiguous(line, whiteRunRe, parsed.White)

\* stray text breaks the run: AB[cc]x[dd] gives one black stone
C4_Witness ==
    /\ parsed.called
    /\ line = RunSpan(blackRunRe, <<cc>>) \o <<"x">> \o Group(dd)
    /\ ~parsed.err
    /\ parsed.Black = <<cc>>

\* stone sequences of one or two coordinates, one of them outside a to s
OffBoardSeqs ==
    {cs \in UNION {[1..n -> {cc, dd, zz}] : n \in 1..2} :
        \E k \in 1..Len(cs) : cs[k] = zz}

\* C11 as stated: ParseSGFLine does not fail on, nor drop, a bracketed
\* coordinate after a stone marker because its characters are outside a to
\* s: a line made of a marker and such bracket groups parses, and the
\* colour's sequence holds every one of the coordinates, in order.
C11_ParseKeepsOffBoardCoordinates ==
    parsed.called =>
        \A m \in {blackRunRe, whiteRunRe}, cs \in OffBoardSeqs :
            line = RunSpan(m, cs) =>
                /\ ~parsed.err
                /\ (IF m = blackRunRe THEN parsed.Black ELSE parsed.White) = cs

-----------------------------------------------------------------------------
(* Properties of LoadProblems *)

RECURSIVE ParsedInOrder(_)
\* the puzzles of the lines ParseSGFLine accepts, in the order of the lines
ParsedInOrder(f) ==
    IF f = <<>> THEN <<>>
    ELSE IF ParseResult(Head(f)).err THEN ParsedInOrder(Tail(f))
         ELSE <<ProblemOf(ParseResult(Head(f)))>> \o ParsedInOrder(Tail(f))

Malformed(f) == {k \in 1..Len(f) : ParseResult(f[k]).err}

\* C5: LoadProblems on a readable file of N lines of which M fail
\* ParseSGFLine returns no error and has appended exactly N - M puzzles, in
\* the order of their lines, to the puzzles the parser held; each malformed
\* line is logged and the lines after it are still processed.
C5_LoadSkipsMalformed ==
    (loadPc = "ret" /\ fileOpens /\ faultAt = 0) =>
        /\ loadErr = "nil"
        /\ lineNo = Len(file)
        /\ \E prior \in PriorProblems :
              /\ Problems = prior \o ParsedInOrder(file)
              /\ Len(Problems) - Len(prior)
                    = Len(file) - Cardinality(Malformed(file))
        /\ Len(skipLog) = Cardinality(Malformed(file))

\* a malformed line between two good ones, loaded after an earlier load
C5_Witness ==
    /\ loadPc = "ret"
    /\ fileOpens /\ faultAt = 0
    /\ Len(file) = 3
    /\ Malformed(file) = {2}
    /\ file[1] # file[3]
    /\ Len(Problems) = 3
    /\ Problems[3].Black = <<cc>>
    /\ skipLog = <<file[2]>>

-----------------------------------------------------------------------------
(* Properties of RenderProblem *)

\* two characters, each a to s
ValidCoord(c) ==
    /\ Len(c) = 2
    /\ \A k \in 1..2 : Ord(c[k]) \in Ord("a")..Ord("s")

AllValid(p) ==
    /\ \A k \in 1..Len(p.Black) : ValidCoord(p.Black[k])
    /\ \A k \in 1..Len(p.White) : ValidCoord(p.White[k])

Returned(c) == rpc[c] = "ret"
Failed(c) == ret[c].err.err # "nil"
CoordError(c) == ret[c].err.err \in {"invalid coord", "coord out of range"}
SaveError(c) == ret[c].err.err \in {"create", "write"}

\* C6 as stated: RenderProblem never fails for a puzzle whose coordinates
\* are all two characters a to s, and always fails for any other puzzle.
C6_FailsIffBadCoordinate ==
    \A c \in Calls : Returned(c) => (Failed(c) <=> ~AllValid(puzzle[c]))

\* C6 amended: for a puzzle whose coordinates are all two characters a to s
\* RenderProblem never fails on a coordinate, it reaches the save step and
\* fails only if creating or writing the file fails; for any other puzzle it
\* always fails.
C6_CoordinatesDecideDecoding ==
    \A c \in Calls :
        /\ rpc[c] \in {"save", "write"} => AllValid(puzzle[c])
        /\ Returned(c) =>
              /\ AllValid(puzzle[c]) => (~CoordError(c) /\ (Failed(c) => SaveError(c)))
              /\ ~AllValid(puzzle[c]) => Failed(c)

\* a puzzle with stones of both colours on the corner columns rendered to
\* its file
C6_Witness ==
    \E c \in Calls :
        /\ Returned(c) /\ ~Failed(c)
        /\ puzzle[c].Black = <<<<"a", "s">>, <<"a", "s">>>>
        /\ puzzle[c].White = <<<<"a", "s">>>>
        /\ Len(canvas[c].stones) = 3
        /\ canvas[c].stones[1].x = 0 /\ canvas[c].stones[1].y = BoardSize - 1
        /\ fs[ret[c].path] = Image(canvas[c])

\* C7: when a coordinate of the puzzle fails to decode, wherever it stands,
\* RenderProblem returns an error naming it and an empty path, never opens
\* or writes a file, and (no other call running) the files are as they were.
C7_BadCoordinateWritesNothing ==
    \A c \in Calls :
        ~AllValid(puzzle[c]) =>
            /\ rpc[c] \in {"call", "ret"}
            /\ handle[c] = "none"
            /\ written[c] = 0
            /\ Returned(c) =>
                  /\ ret[c].path = <<>>
                  /\ CoordError(c)
                  /\ ~ValidCoord(ret[c].err.coord)
            /\ (\A d \in Calls \ {c} : rpc[d] = "idle") =>
                  \A q \in DOMAIN fs : fs[q] = OldImage

\* the second white stone is bad, after a black and a white one were drawn
C7_Witness ==
    \E c \in Calls :
        /\ Returned(c)
        /\ puzzle[c].Black = <<<<"a", "s">>>>
        /\ puzzle[c].White = <<<<"a", "s">>, <<"d", "t">>>>
        /\ Len(canvas[c].stones) = 2
        /\ ret[c].err.coord = <<"d", "t">>
        /\ fs = <<>>

\* a file a reader may be given: a whole image
WholeFile(content) ==
    \/ content = OldImage
    \/ \E c \in Calls : content = Image(canvas[c])

\* C8 as stated: when creating or writing the file fails during the save
\* step, the error is returned and the output path holds no file, or a whole
\* image, never a partly written one.
C8_FailedSaveLeavesNoPartialFile ==
    \A c \in Calls :
        (Returned(c) /\ SaveError(c)) =>
            LET path == OutPath(puzzle[c], outputDir[c])
            IN  /\ ret[c].path = <<>>
                /\ path \in DOMAIN fs => WholeFile(fs[path])

\* C10 as stated: a successful RenderProblem returns outputDir joined with
\* the sanitized title plus .png; when two calls with titles that sanitize
\* alike and the same directory have both succeeded, in whatever order their
\* steps ran, the file at their one path holds the image of one of them.
C10_CollisionKeepsOneImage ==
    /\ \A c \in Calls :
          (Returned(c) /\ ~Failed(c)) =>
              ret[c].path = Join(outputDir[c],
                                 sanitizeFilename(puzzle[c].Name) \o <<".", "p", "n", "g">>)
    /\ ( /\ \A c \in Calls : Returned(c) /\ ~Failed(c)
         /\ outputDir["r1"] = outputDir["r2"]
         /\ sanitizeFilename(puzzle["r1"].Name) = sanitizeFilename(puzzle["r2"].Name) )
           => /\ ret["r1"].path = ret["r2"].path
              /\ fs[ret["r1"].path] \in {Image(canvas["r1"]), Image(canvas["r2"])}

-----------------------------------------------------------------------------
(* Properties of sanitizeFilename *)

IsAllowed(c) ==
    \/ Ord(c) \in Ord("A")..Ord("Z")
    \/ Ord(c) \in Ord("a")..Ord("z")
    \/ Ord(c) \in Ord("0")..Ord("9")
    \/ c \in {"_", "-"}

IsSpace(c) == c = " "

\* C9: sanitizeFilename is idempotent; its result holds only ASCII letters,
\* digits, underscore and hyphen, the allowed characters of the title in
\* their order with one underscore for each space; a title with no
\* allowed character and no space gives the literal problem.
C9_SanitizeIdempotent ==
    /\ Len(sanitized) >= 1 =>
          LET out == sanitized[1]
              usable == SelectSeq(name, LAMBDA c : IsAllowed(c) \/ IsSpace(c))
          IN  /\ \A k \in 1..Len(out) : IsAllowed(out[k])
              /\ usable = <<>> => out = problem
              /\ usable # <<>> =>
                    /\ Len(out) = Len(usable)
                    /\ \A k \in 1..Len(out) :
                          out[k] = IF IsSpace(usable[k]) THEN "_" ELSE usable[k]
    /\ Len(sanitized) = 2 => sanitized[2] = sanitized[1]

\* a title with a space, a dropped character and a letter, sanitized twice
C9_Witness ==
    /\ name = <<" ", "/", "z">>
    /\ sanitized = <<<<"_", "z">>, <<"_", "z">>>>

-----------------------------------------------------------------------------
(* Properties of the daily-config store *)

\* the SetConfig calls for guild g, among the first n made, that executed
SetsFor(g, n) == {k \in 1..n : setLog[k].guild = g /\ setLog[k].err = "nil"}

\* the config the most recent of them set
MostRecent(g, n) ==
    LET k == CHOOSE i \in SetsFor(g, n) : \A j \in SetsFor(g, n) : j <= i
    IN  Row(g, setLog[k].channel, setLog[k].time)

\* C12: after any sequence of SetConfig calls the table holds at most one
\* config per guild: none for a guild never set, otherwise the channel and
\* time of the most recent SetConfig for that guild, whatever was set for
\* the other guilds since; GetConfig returns that config, and for a guild
\* never set the no-rows error and no config.
C12_StoreKeepsLatestPerGuild ==
    /\ \A g \in Guilds :
          /\ Cardinality(RowsOf(table, g)) <= 1
          /\ RowsOf(table, g) =
                IF SetsFor(g, Len(setLog)) = {} THEN {}
                ELSE {MostRecent(g, Len(setLog))}
    /\ (got.called /\ got.err # "failed to get config") =>
          IF SetsFor(got.guild, got.seen) = {}
          THEN got.err = "sql.ErrNoRows" /\ "cfg" \notin DOMAIN got
          ELSE got.err = "nil" /\ got.cfg = MostRecent(got.guild, got.seen)

\* g1 set, then g2, then g1 again with another channel and time; GetConfig
\* of g1 returns the last one and g2's row is still there
C12_Witness ==
    /\ Len(setLog) = 3
    /\ \A k \in 1..3 : setLog[k].err = "nil"
    /\ setLog[1].guild = "g1" /\ setLog[2].guild = "g2" /\ setLog[3].guild = "g1"
    /\ setLog[1].channel # setLog[3].channel
    /\ setLog[1].time # setLog[3].time
    /\ got.called /\ got.guild = "g1" /\ got.seen = 3 /\ got.err = "nil"
    /\ got.cfg = Row("g1", setLog[3].channel, setLog[3].time)
    /\ Row("g2", setLog[2].channel, setLog[2].time) \in table
    /\ Cardinality(table) = 2

\* a guild never set, asked for after another guild was set
C12_WitnessNoRows ==
    /\ Len(setLog) >= 1
    /\ got.called /\ got.guild = "g2" /\ got.seen = Len(setLog)
    /\ got.err = "sql.ErrNoRows"

-----------------------------------------------------------------------------
(* Properties of handleDaily *)

\* both times fall in the UTC day d: the seconds from 86400 d up to, not
\* including, 86400 (d + 1)
SameUTCDay(t1, t2) ==
    \E d \in 0..MaxDay :
        \A t \in {t1, t2} : d * SecondsPerDay <= t /\ t < (d + 1) * SecondsPerDay

\* C13: handleDaily checks emptiness before selecting: on an empty
\* collection it reports that no problems are available, indexes nothing
\* and never calls RenderProblem; on count > 0 puzzles the index it selects
\* is in [0, count - 1], the puzzle at that index is the one rendered, and
\* two invocations within one UTC day select the same index.
C13_DailyChecksEmptinessFirst ==
    /\ \A c \in Calls :
          picked[c].read =>
              /\ picked[c].count = Len(Problems)
              /\ picked[c].count = 0 =>
                    /\ ~picked[c].indexed
                    /\ dpc[c] = "done"
                    /\ reply[c][Len(reply[c])] = "no problems available"
                    /\ rpc[c] = "idle"
              /\ picked[c].count > 0 =>
                    /\ picked[c].indexed
                    /\ picked[c].idx \in 0..(picked[c].count - 1)
                    /\ dpc[c] # "panic"
                    /\ rpc[c] # "idle"
                    /\ puzzle[c] = Problems[picked[c].idx + 1]
    /\ \A c \in Calls : ~picked[c].read => rpc[c] = "idle"
    /\ \A c, d \in Calls :
          ( /\ picked[c].read /\ picked[d].read
            /\ picked[c].indexed /\ picked[d].indexed
            /\ SameUTCDay(picked[c].at, picked[d].at) )
              => picked[c].idx = picked[d].idx

\* two invocations on the second day, one in its first second and one in
\* its last, on a collection of two puzzles: both select index 1
C13_Witness ==
    /\ Len(Problems) = 2
    /\ picked["r1"].read /\ picked["r2"].read
    /\ picked["r1"].at = SecondsPerDay
    /\ picked["r2"].at = 2 * SecondsPerDay - 1
    /\ picked["r1"].idx = 1 /\ picked["r2"].idx = 1
    /\ \A c \in Calls : dpc[c] = "done" /\ rpc[c] = "ret"

\* an empty collection: the file held only a line the parser rejects
C13_WitnessEmpty ==
    /\ Len(file) = 1
    /\ Problems = <<>>
    /\ picked["r1"].read
    /\ dpc["r1"] = "done"
    /\ reply["r1"] = <<"Daily practice thread created!", "no problems available">>

\* invocations on different days select different puzzles
C13_WitnessNextDay ==
    /\ picked["r1"].read /\ picked["r2"].read
    /\ picked["r1"].indexed /\ picked["r2"].indexed
    /\ picked["r1"].idx = 0 /\ picked["r2"].idx = 1
    /\ puzzle["r1"] # puzzle["r2"]

\* C14: every puzzle ParseSGFLine returned to LoadProblems holds only
\* coordinates that sgfToIndex accepts (two characters, each a to s), so no
\* RenderProblem call on a stored puzzle returns a coordinate error.
C14_LoadedPuzzlesNeverFailOnCoordinate ==
    /\ \A k \in 1..Len(Problems) :
          /\ AllValid(Problems[k])
          /\ \A i \in 1..Len(StoneCalls(Problems[k])) :
                sgfToIndex(StoneCalls(Problems[k])[i].coord).err = "nil"
    /\ \A c \in Calls :
          /\ rpc[c] # "idle" => \E k \in 1..Len(Problems) : puzzle[c] = Problems[k]
          /\ Returned(c) => ~CoordError(c)

\* the file holds AB[cc][zz]C[x ] and AB[zz]: the first is stored with the
\* one stone cc, the second skipped, and the stored puzzle is rendered
C14_Witness ==
    /\ Len(Problems) >= 1
    /\ \E k \in 1..Len(file) : file[k] = blackRunRe \o Group(zz)
    /\ Len(skipLog) >= 1
    /\ \E c \in Calls :
          /\ Returned(c) /\ ~Failed(c)
          /\ puzzle[c] = [Name |-> <<"x", " ">>, Black |-> <<cc>>, White |-> <<>>]
          /\ Len(canvas[c].stones) = 1
          /\ ret[c].path = <<"o","u","t","/","x","_",".","p","n","g">>

=============================================================================
